---- MODULE Spec2Model ----
(***************************************************************************)
(* Go PDF report service: router, AuthMiddleware / extractTokens,          *)
(* NodejsClient (GetStudent, HealthCheck) and the two HTTP handlers.       *)
(*                                                                         *)
(* Text is modelled as a sequence of atoms (short pieces of text); the     *)
(* empty string is <<>>.  fmt.Sprintf is concatenation, strings.Contains   *)
(* is a search for a contiguous run of atoms.                              *)
(***************************************************************************)
EXTENDS Integers, Sequences, FiniteSets, TLC

VARIABLES
    authMode,   \* value of AUTH_MODE when NewRouter ran
    client,     \* the one NodejsClient of the Service: AccessToken, CSRFToken
    pc,         \* per connection slot: position of the request being served
    req,        \* per slot: the inbound request
    tok,        \* per slot: the pair returned by extractTokens
    upReq,      \* per slot: the outbound request built by the client
    upResp,     \* per slot: what the upstream answered
    doc,        \* per slot: the outcome of the render and of the write
    resp,       \* per slot: what was written to the http.ResponseWriter
    log         \* per slot: lines printed by the handler for this request

vars == <<authMode, client, pc, req, tok, upReq, upResp, doc, resp, log>>

----------------------------------------------------------------------------
(* Bounds *)

NumSlots == 2       \* connections the server holds at the same time
MaxCookies == 2     \* cookies carried by one inbound request

Slots == 1..NumSlots

----------------------------------------------------------------------------
(* Text helpers *)

Empty == <<>>

\* strings.HasPrefix
HasPrefix(s, p) == Len(s) >= Len(p) /\ SubSeq(s, 1, Len(p)) = p

\* strings.TrimPrefix
TrimPrefix(s, p) == IF HasPrefix(s, p) THEN SubSeq(s, Len(p) + 1, Len(s)) ELSE s

\* strings.Contains
Contains(s, sub) ==
    \E k \in 0..(Len(s) - Len(sub)) : SubSeq(s, k + 1, k + Len(sub)) = sub

Digit(d) == <<"0", "1", "2", "3", "4", "5", "6", "7", "8", "9">>[d + 1]

\* the %d verb of fmt.Sprintf, for a non-negative integer
RECURSIVE Itoa(_)
Itoa(n) == IF n < 10 THEN <<Digit(n)>> ELSE Itoa(n \div 10) \o <<Digit(n % 10)>>

IsDigit(a) == a \in {"0", "1", "2", "3", "4", "5", "6", "7", "8", "9"}

DigitVal(a) == CHOOSE d \in 0..9 : Digit(d) = a

\* value of a run of digit atoms
RECURSIVE Atoi(_)
Atoi(s) == IF s = <<>> THEN 0
           ELSE 10 * Atoi(SubSeq(s, 1, Len(s) - 1)) + DigitVal(s[Len(s)])

----------------------------------------------------------------------------
(* Inbound requests *)

AccessCookieName == "accessToken"
CsrfCookieName == "csrfToken"

CookieValues == {Empty, <<"tokA">>, <<"tokD">>}
Cookies == [Name : {AccessCookieName, CsrfCookieName}, Value : CookieValues]

RECURSIVE SeqsUpTo(_, _)
SeqsUpTo(S, n) ==
    IF n = 0 THEN {<<>>}
    ELSE LET shorter == SeqsUpTo(S, n - 1)
         IN  shorter \cup {Append(q, x) : q \in {t \in shorter : Len(t) = n - 1}, x \in S}

CookieJars == SeqsUpTo(Cookies, MaxCookies)

AuthorizationValues == {Empty, <<"Bearer ">>, <<"Bearer ", "tokB">>, <<"Basic ", "tokB">>}
XAccessTokenValues == {Empty, <<"tokC">>}
XCSRFTokenValues == {Empty, <<"csrfH">>}

Headers == [Authorization : AuthorizationValues,
            XAccessToken : XAccessTokenValues,
            XCSRFToken : XCSRFTokenValues]

ReportPath(id) == <<"api", "v1", "students", id, "report">>
HealthPath == <<"health">>

StudentIDs == {"", "2", "999", "abc"}

Paths == {ReportPath(id) : id \in StudentIDs}
         \cup {HealthPath, <<"api", "v1", "students", "report">>}

\* every GET request the model can receive
AllRequests == [path : Paths, cookies : CookieJars, header : Headers]

NoHeaders == [Authorization |-> Empty, XAccessToken |-> Empty, XCSRFToken |-> Empty]

\* the credential shapes of TestAuthenticationMethods / TestStudentReportGeneration
SampleCredentials ==
    { [cookies |-> <<>>, header |-> NoHeaders],
      [cookies |-> <<[Name |-> AccessCookieName, Value |-> <<"tokA">>],
                     [Name |-> CsrfCookieName, Value |-> <<"tokD">>]>>,
       header |-> NoHeaders],
      [cookies |-> <<[Name |-> AccessCookieName, Value |-> <<"tokA">>]>>,
       header |-> NoHeaders],
      [cookies |-> <<>>,
       header |-> [NoHeaders EXCEPT !.Authorization = <<"Bearer ", "tokB">>,
                                    !.XCSRFToken = <<"csrfH">>]],
      [cookies |-> <<>>,
       header |-> [NoHeaders EXCEPT !.XAccessToken = <<"tokC">>]] }

SampleRequests ==
    { [path |-> p, cookies |-> c.cookies, header |-> c.header] :
        p \in Paths, c \in SampleCredentials }

NoRequest == [path |-> <<>>, cookies |-> <<>>, header |-> NoHeaders]

\* http.Request.Cookie: the first cookie of that name, or ErrNoCookie
HasCookie(r, name) == \E k \in 1..Len(r.cookies) : r.cookies[k].Name = name

Cookie(r, name) ==
    LET k == CHOOSE j \in 1..Len(r.cookies) :
                 /\ r.cookies[j].Name = name
                 /\ \A m \in 1..(j - 1) : r.cookies[m].Name # name
    IN  r.cookies[k]

----------------------------------------------------------------------------
(* extractTokens *)

Bearer == <<"Bearer ">>

extractTokens_HeaderBeforeCookie(r) ==
    LET a1 == IF HasPrefix(r.header.Authorization, Bearer)
              THEN TrimPrefix(r.header.Authorization, Bearer) ELSE Empty
        a2 == IF a1 = Empty THEN r.header.XAccessToken ELSE a1
        a3 == IF a2 = Empty /\ HasCookie(r, AccessCookieName)
              THEN Cookie(r, AccessCookieName).Value ELSE a2
        c1 == r.header.XCSRFToken
        c2 == IF c1 = Empty /\ HasCookie(r, CsrfCookieName)
              THEN Cookie(r, CsrfCookieName).Value ELSE c1
    IN  [access |-> a3, csrf |-> c2]

extractTokens_CustomBeforeBearer(r) ==
    LET a1 == IF HasCookie(r, AccessCookieName)
              THEN Cookie(r, AccessCookieName).Value ELSE Empty
        a2 == IF a1 = Empty THEN r.header.XAccessToken ELSE a1
        a3 == IF a2 = Empty /\ HasPrefix(r.header.Authorization, Bearer)
              THEN TrimPrefix(r.header.Authorization, Bearer) ELSE a2
        c1 == IF HasCookie(r, CsrfCookieName)
              THEN Cookie(r, CsrfCookieName).Value ELSE Empty
        c2 == IF c1 = Empty THEN r.header.XCSRFToken ELSE c1
    IN  [access |-> a3, csrf |-> c2]

extractTokens_NoCsrfFallback(r) ==
    LET a1 == IF HasCookie(r, AccessCookieName)
              THEN Cookie(r, AccessCookieName).Value ELSE Empty
        a2 == IF a1 = Empty /\ HasPrefix(r.header.Authorization, Bearer)
              THEN TrimPrefix(r.header.Authorization, Bearer) ELSE a1
        a3 == IF a2 = Empty THEN r.header.XAccessToken ELSE a2
        c1 == IF HasCookie(r, CsrfCookieName)
              THEN Cookie(r, CsrfCookieName).Value ELSE Empty
    IN  [access |-> a3, csrf |-> c1]

extractTokens_CsrfFromAccessHeader(r) ==
    LET a1 == IF HasCookie(r, AccessCookieName)
              THEN Cookie(r, AccessCookieName).Value ELSE Empty
        a2 == IF a1 = Empty /\ HasPrefix(r.header.Authorization, Bearer)
              THEN TrimPrefix(r.header.Authorization, Bearer) ELSE a1
        a3 == IF a2 = Empty THEN r.header.XAccessToken ELSE a2
        c1 == IF HasCookie(r, CsrfCookieName)
              THEN Cookie(r, CsrfCookieName).Value ELSE Empty
        c2 == IF c1 = Empty THEN r.header.XCSRFToken ELSE c1
        c3 == IF c2 = Empty THEN r.header.XAccessToken ELSE c2
    IN  [access |-> a3, csrf |-> c3]

extractTokens(r) ==
    LET \* Method 1: cookies
        a1 == IF HasCookie(r, AccessCookieName)
              THEN Cookie(r, AccessCookieName).Value ELSE Empty
        c1 == IF HasCookie(r, CsrfCookieName)
              THEN Cookie(r, CsrfCookieName).Value ELSE Empty
        \* Method 2: Authorization header
        a2 == IF a1 = Empty /\ HasPrefix(r.header.Authorization, Bearer)
              THEN TrimPrefix(r.header.Authorization, Bearer) ELSE a1
        \* Method 3: CSRF header
        c2 == IF c1 = Empty THEN r.header.XCSRFToken ELSE c1
        \* Method 4: custom headers
        a3 == IF a2 = Empty THEN r.header.XAccessToken ELSE a2
        c3 == IF c2 = Empty THEN r.header.XCSRFToken ELSE c2
    IN  [access |-> a3, csrf |-> c3]

----------------------------------------------------------------------------
(* Router *)

StatusOK == 200
StatusMovedPermanently == 301
StatusBadRequest == 400
StatusNotFound == 404
StatusInternalServerError == 500
StatusServiceUnavailable == 503

\* mux cleans the path: empty segments are dropped
CleanPath(path) == SelectSeq(path, LAMBDA seg : seg # "")

Route_EmptyIdMatches(path) ==
    IF Len(path) = 5 /\ SubSeq(path, 1, 3) = <<"api", "v1", "students">>
                     /\ path[5] = "report"
    THEN [kind |-> "report", id |-> path[4]]
    ELSE IF CleanPath(path) # path
    THEN [kind |-> "redirect", id |-> ""]
    ELSE IF path = HealthPath
    THEN [kind |-> "health", id |-> ""]
    ELSE [kind |-> "notfound", id |-> ""]

\* the routes registered by NewRouter; {id} matches one non-empty segment
Route(path) ==
    IF CleanPath(path) # path
    THEN [kind |-> "redirect", id |-> ""]
    ELSE IF Len(path) = 5 /\ SubSeq(path, 1, 3) = <<"api", "v1", "students">>
                          /\ path[4] # "" /\ path[5] = "report"
    THEN [kind |-> "report", id |-> path[4]]
    ELSE IF path = HealthPath
    THEN [kind |-> "health", id |-> ""]
    ELSE [kind |-> "notfound", id |-> ""]

\* the request names the report endpoint (its id segment may be empty)
IsReportPath(path) ==
    /\ Len(path) = 5
    /\ SubSeq(path, 1, 3) = <<"api", "v1", "students">>
    /\ path[5] = "report"

----------------------------------------------------------------------------
(* Responses *)

NoResponse ==
    [status |-> 0, contentType |-> Empty, disposition |-> Empty,
     contentLength |-> Empty, location |-> Empty, body |-> Empty]

\* http.Error: plain-text content type, status, the message and a newline
HttpError(msg, code) ==
    [NoResponse EXCEPT !.status = code,
                       !.contentType = <<"text/plain; charset=utf-8">>,
                       !.body = msg \o <<"\n">>]

ErrIDRequired == <<"{\"error\":\"", "Student ID is required", "\"}">>
ErrNotFound == <<"{\"error\":\"", "Student not found", "\"}">>
ErrFetchFailed == <<"{\"error\":\"", "Failed to fetch student data", "\"}">>
ErrRenderFailed == <<"{\"error\":\"", "Failed to generate PDF report", "\"}">>

\* what mux writes for a path that is not clean, and for no matching route
RedirectResponse(path) ==
    [NoResponse EXCEPT !.status = StatusMovedPermanently,
                       !.location = CleanPath(path)]

NotFoundResponse == HttpError(<<"404 page not found">>, StatusNotFound)

HealthyBody ==
    <<"{\"status\":\"", "healthy", "\",\"service\":\"", "go-pdf-service",
      "\",\"nodejs_api\":\"", "connected", "\"}">>
UnhealthyBody ==
    <<"{\"status\":\"", "unhealthy", "\",\"service\":\"", "go-pdf-service",
      "\",\"error\":\"", "Node.js API unavailable", "\"}">>

----------------------------------------------------------------------------
(* NodejsClient *)

BaseURL == "http://localhost:5007"

TestAccessToken == <<"eyJhbGciOiJIUzI1NiIsInR5cCI6IkpXVCJ9">>
TestCSRFToken == <<"32175c1f-5df7-418b-a9a4-24eadf5d7526">>

\* NewNodejsClient: both token fields are the empty string
NewNodejsClient == [AccessToken |-> Empty, CSRFToken |-> Empty]

NoUpReq == [url |-> Empty, cookie |-> Empty, csrf |-> Empty]

StudentURL(studentID) == <<BaseURL, "/api/v1/students/", studentID>>
DashboardURL == <<BaseURL, "/api/v1/dashboard">>

\* the Cookie header of an outbound request
CookieHeader_AlwaysSet(accessToken) == <<"accessToken=">> \o accessToken

CookieHeader(accessToken) ==
    IF accessToken # Empty THEN <<"accessToken=">> \o accessToken ELSE Empty

\* what the upstream call can produce
UpstreamStatuses == {200, 401, 403, 404, 500}

StatusNeedle == <<"status ", "4", "0", "4">>

ValidTime == "2005-08-15T00:00:00Z"

UpstreamBodies ==
    { Empty,
      <<"{", "\"id\":", "2", "}">>,
      <<"{", "\"id\":", "\"", "x", "\"", "}">>,
      <<"{", "\"error\":", "\"", "Student not found", "\"", "}">>,
      <<"{", "\"dob\":", "\"", ValidTime, "\"", "}">>,
      <<"{", "\"dob\":", "\"", "status ", "4", "0", "4", "\"", "}">>,
      <<"status ", "4", "0", "4">> }

TransportCauses ==
    { <<"dial tcp: connect: connection refused">>,
      <<"context deadline exceeded (Client.Timeout exceeded while awaiting headers)">> }

NoOutcome == [kind |-> "none", status |-> 0, body |-> Empty, cause |-> Empty]

\* io.ReadAll of the response body fails after a part of the body
BodyReadCauses == { <<"unexpected EOF">> }
PartialBodies == { Empty, <<"{", "\"id\":">> }

\* kind "transport": Do returned an error; kind "http": a response whose body
\* can be read to its end; kind "bodyerr": a response whose body breaks off
UpstreamOutcomes ==
    { [kind |-> "http", status |-> st, body |-> b, cause |-> Empty] :
        st \in UpstreamStatuses, b \in UpstreamBodies }
    \cup { [kind |-> "transport", status |-> 0, body |-> Empty, cause |-> c] :
             c \in TransportCauses }
    \cup { [kind |-> "bodyerr", status |-> st, body |-> b, cause |-> c] :
             st \in UpstreamStatuses, b \in PartialBodies, c \in BodyReadCauses }

\* models.Student, the fields the model follows
ZeroStudent == [ID |-> 0, DOB |-> "0001-01-01T00:00:00Z"]

FirstChar(a) == IF a = "status " THEN "s" ELSE a

\* the error of time.Time.UnmarshalJSON for a value that is not RFC 3339
TimeParseError(v) ==
    <<"parsing time \"">> \o v \o <<"\" as \"2006-01-02T15:04:05Z07:00\": cannot parse \"">>
    \o v \o <<"\" as \"2006\"">>

\* json.Unmarshal(body, &student) for bodies of at most one field
Unmarshal(body) ==
    LET fail(msg) == [ok |-> FALSE, err |-> msg, student |-> ZeroStudent]
        done(st) == [ok |-> TRUE, err |-> Empty, student |-> st]
    IN
    IF body = <<>> THEN fail(<<"unexpected end of JSON input">>)
    ELSE IF Head(body) # "{"
    THEN fail(<<"invalid character '", FirstChar(Head(body)),
               "' looking for beginning of value">>)
    ELSE IF body[Len(body)] # "}" THEN fail(<<"unexpected end of JSON input">>)
    ELSE LET inner == SubSeq(body, 2, Len(body) - 1)
             key == Head(inner)
             val == Tail(inner)
             quoted == Len(val) >= 2 /\ Head(val) = "\"" /\ val[Len(val)] = "\""
             content == SubSeq(val, 2, Len(val) - 1)
         IN  IF inner = <<>> THEN done(ZeroStudent)
             ELSE IF key = "\"id\":"
             THEN IF val # <<>> /\ \A k \in 1..Len(val) : IsDigit(val[k])
                  THEN done([ZeroStudent EXCEPT !.ID = Atoi(val)])
                  ELSE fail(<<"json: cannot unmarshal string into Go struct field Student.id of type int">>)
             ELSE IF key = "\"dob\":"
             THEN IF ~quoted
                  THEN fail(<<"Time.UnmarshalJSON: input is not a JSON string">>)
                  ELSE IF content = <<ValidTime>>
                  THEN done([ZeroStudent EXCEPT !.DOB = ValidTime])
                  ELSE fail(TimeParseError(content))
             ELSE done(ZeroStudent)

\* GetStudent from the return of HTTPClient.Do on: the error text, or the record
GetStudentResult_IgnoresStatus(url, o) ==
    LET fail(msg) == [ok |-> FALSE, err |-> msg, student |-> ZeroStudent]
    IN
    IF o.kind = "transport"
    THEN fail(<<"failed to make request: ", "Get \"">> \o url \o <<"\": ">> \o o.cause)
    ELSE IF o.kind = "bodyerr"
    THEN fail(<<"failed to read response body: ">> \o o.cause)
    ELSE LET u == Unmarshal(o.body)
         IN  IF ~u.ok THEN fail(<<"failed to unmarshal student data: ">> \o u.err)
             ELSE u

GetStudentResult(url, o) ==
    LET fail(msg) == [ok |-> FALSE, err |-> msg, student |-> ZeroStudent]
    IN
    IF o.kind = "transport"
    THEN fail(<<"failed to make request: ", "Get \"">> \o url \o <<"\": ">> \o o.cause)
    ELSE IF o.status # StatusOK
    THEN fail(<<"API request failed with ", "status ">> \o Itoa(o.status)
              \o <<": ">> \o o.body)
    ELSE IF o.kind = "bodyerr"
    THEN fail(<<"failed to read response body: ">> \o o.cause)
    ELSE LET u == Unmarshal(o.body)
         IN  IF ~u.ok THEN fail(<<"failed to unmarshal student data: ">> \o u.err)
             ELSE u

\* HealthCheck from the return of HTTPClient.Do on: TRUE when it returns nil
\* (the body is not read)
HealthCheckResult_AnyAnswer(o) == o.kind \in {"http", "bodyerr"}

HealthCheckResult(o) == o.kind \in {"http", "bodyerr"} /\ o.status = StatusOK

----------------------------------------------------------------------------
(* HandleStudentReport, after GetStudent returned *)

NoTokens == [access |-> Empty, csrf |-> Empty]

NoDoc == [attempted |-> FALSE, failed |-> FALSE, bytes |-> Empty, written |-> 0]

GenerateStudentReport_NoHeader(student) ==
    <<"Student Information", "ID: ">> \o Itoa(student.ID)
    \o <<"Date of Birth: ", student.DOB, "%%EOF">>

\* pdf.Generator.GenerateStudentReport on success: the document bytes
GenerateStudentReport(student) ==
    <<"%PDF", "Student Information", "ID: ">> \o Itoa(student.ID)
    \o <<"Date of Birth: ", student.DOB, "%%EOF">>

\* pdf.Generator.GenerateStudentReport: whether it returns an error; the
\* renderer never fails for a structurally valid record
RenderOutcomes(student) == {TRUE}

\* the bytes of the fixed layout of a document: header block, section
\* titles, labels, footer and the framing of the format
FrameBytes == 1024

\* the length in bytes of a rendered document, each atom at least one byte
ByteLen(pdfBytes) == IF pdfBytes = Empty THEN 0 ELSE FrameBytes + Len(pdfBytes)

\* the response for a failed GetStudent
FetchErrorResponse_EchoesError(errMsg) ==
    IF Contains(errMsg, StatusNeedle)
    THEN HttpError(ErrNotFound, StatusNotFound)
    ELSE HttpError(<<"{\"error\":\"">> \o errMsg \o <<"\"}">>, StatusInternalServerError)

FetchErrorResponse_MatchesBodyText(errMsg) ==
    IF Contains(errMsg, <<"Student not found">>)
    THEN HttpError(ErrNotFound, StatusNotFound)
    ELSE HttpError(ErrFetchFailed, StatusInternalServerError)

FetchErrorResponse(errMsg) ==
    IF Contains(errMsg, StatusNeedle)
    THEN HttpError(ErrNotFound, StatusNotFound)
    ELSE HttpError(ErrFetchFailed, StatusInternalServerError)

ContentDisposition(studentID) ==
    <<"attachment; filename=student_", studentID, "_report.pdf">>

\* the headers set before the write, and the n bytes the write put out
PDFResponse_FilenameFromRecord(studentID, student, pdfBytes, n) ==
    [NoResponse EXCEPT !.status = StatusOK,
                       !.contentType = <<"application/pdf">>,
                       !.disposition = <<"attachment; filename=student_">>
                                       \o Itoa(student.ID) \o <<"_report.pdf">>,
                       !.contentLength = Itoa(Len(pdfBytes)),
                       !.body = SubSeq(pdfBytes, 1, n)]

PDFResponse(studentID, student, pdfBytes, n) ==
    [NoResponse EXCEPT !.status = StatusOK,
                       !.contentType = <<"application/pdf">>,
                       !.disposition = ContentDisposition(studentID),
                       !.contentLength = Itoa(Len(pdfBytes)),
                       !.body = SubSeq(pdfBytes, 1, n)]

FetchErrorLine(studentID, errMsg) ==
    <<"Error fetching student ", studentID, ": ">> \o errMsg \o <<"\n">>
RenderErrorLine(studentID) ==
    <<"Error generating PDF for student ", studentID, ": ", "render error", "\n">>
WriteErrorLine(studentID) ==
    <<"Error writing PDF response for student ", studentID, ": ", "write error", "\n">>
SuccessLine(studentID) ==
    <<"Successfully generated PDF report for student ", studentID, "\n">>

\* lines 64-86: render, then headers and write; renderOK and n are the
\* outcomes of GenerateStudentReport and of w.Write
RenderAndRespond_HeadersBeforeCheck(studentID, student, renderOK, n) ==
    LET pdfBytes == GenerateStudentReport(student)
    IN  IF ~renderOK
        THEN [doc |-> [attempted |-> TRUE, failed |-> TRUE, bytes |-> Empty, written |-> 0],
              resp |-> [HttpError(ErrRenderFailed, StatusInternalServerError)
                          EXCEPT !.contentType = <<"application/pdf">>],
              log |-> <<RenderErrorLine(studentID)>>]
        ELSE [doc |-> [attempted |-> TRUE, failed |-> FALSE, bytes |-> pdfBytes, written |-> n],
              resp |-> PDFResponse(studentID, student, pdfBytes, n),
              log |-> IF n < Len(pdfBytes) THEN <<WriteErrorLine(studentID)>>
                      ELSE <<SuccessLine(studentID)>>]

RenderAndRespond_FetchMessage(studentID, student, renderOK, n) ==
    LET pdfBytes == GenerateStudentReport(student)
    IN  IF ~renderOK
        THEN [doc |-> [attempted |-> TRUE, failed |-> TRUE, bytes |-> Empty, written |-> 0],
              resp |-> HttpError(ErrFetchFailed, StatusInternalServerError),
              log |-> <<RenderErrorLine(studentID)>>]
        ELSE [doc |-> [attempted |-> TRUE, failed |-> FALSE, bytes |-> pdfBytes, written |-> n],
              resp |-> PDFResponse(studentID, student, pdfBytes, n),
              log |-> IF n < Len(pdfBytes) THEN <<WriteErrorLine(studentID)>>
                      ELSE <<SuccessLine(studentID)>>]

RenderAndRespond(studentID, student, renderOK, n) ==
    LET pdfBytes == GenerateStudentReport(student)
    IN  IF ~renderOK
        THEN [doc |-> [attempted |-> TRUE, failed |-> TRUE, bytes |-> Empty, written |-> 0],
              resp |-> HttpError(ErrRenderFailed, StatusInternalServerError),
              log |-> <<RenderErrorLine(studentID)>>]
        ELSE [doc |-> [attempted |-> TRUE, failed |-> FALSE, bytes |-> pdfBytes, written |-> n],
              resp |-> PDFResponse(studentID, student, pdfBytes, n),
              log |-> IF n < Len(pdfBytes) THEN <<WriteErrorLine(studentID)>>
                      ELSE <<SuccessLine(studentID)>>]

----------------------------------------------------------------------------
(* State machine *)

\* NewRouter: NewService, then SetTestTokens when AUTH_MODE=test
SetTestTokens == [AccessToken |-> TestAccessToken, CSRFToken |-> TestCSRFToken]

Init ==
    /\ authMode \in {"", "test"}
    /\ client = IF authMode = "test" THEN SetTestTokens ELSE NewNodejsClient
    /\ pc = [i \in Slots |-> "idle"]
    /\ req = [i \in Slots |-> NoRequest]
    /\ tok = [i \in Slots |-> NoTokens]
    /\ upReq = [i \in Slots |-> NoUpReq]
    /\ upResp = [i \in Slots |-> NoOutcome]
    /\ doc = [i \in Slots |-> NoDoc]
    /\ resp = [i \in Slots |-> NoResponse]
    /\ log = [i \in Slots |-> <<>>]

\* the route a slot's request was dispatched to
RouteOf(i) == Route(req[i].path)

\* mux.Router.ServeHTTP: a request from R arrives and is dispatched
Arrive(i, R) ==
    /\ pc[i] = "idle"
    /\ \E r \in R :
         /\ req' = [req EXCEPT ![i] = r]
         /\ LET rt == Route(r.path)
            IN  CASE rt.kind = "redirect" ->
                       /\ resp' = [resp EXCEPT ![i] = RedirectResponse(r.path)]
                       /\ pc' = [pc EXCEPT ![i] = "done"]
                  [] rt.kind = "notfound" ->
                       /\ resp' = [resp EXCEPT ![i] = NotFoundResponse]
                       /\ pc' = [pc EXCEPT ![i] = "done"]
                  [] rt.kind = "report" ->
                       /\ resp' = resp
                       /\ pc' = [pc EXCEPT ![i] = "auth"]
                  [] rt.kind = "health" ->
                       /\ resp' = resp
                       /\ pc' = [pc EXCEPT ![i] = "health"]
    /\ UNCHANGED <<authMode, client, tok, upReq, upResp, doc, log>>

SetAccessToken_AppendsToken(i) ==
    /\ pc[i] = "auth"
    /\ LET t == extractTokens(req[i])
       IN  /\ tok' = [tok EXCEPT ![i] = t]
           /\ client' = [client EXCEPT !.AccessToken = client.AccessToken \o t.access]
    /\ pc' = [pc EXCEPT ![i] = "setCSRF"]
    /\ UNCHANGED <<authMode, req, upReq, upResp, doc, resp, log>>

SetAccessToken_SkipsEmpty(i) ==
    /\ pc[i] = "auth"
    /\ LET t == extractTokens(req[i])
       IN  /\ tok' = [tok EXCEPT ![i] = t]
           /\ client' = [client EXCEPT !.AccessToken =
                            IF t.access = Empty THEN client.AccessToken ELSE t.access]
    /\ pc' = [pc EXCEPT ![i] = "setCSRF"]
    /\ UNCHANGED <<authMode, req, upReq, upResp, doc, resp, log>>

\* AuthMiddleware: extractTokens, then the first store of SetAuthTokens
SetAccessToken(i) ==
    /\ pc[i] = "auth"
    /\ LET t == extractTokens(req[i])
       IN  /\ tok' = [tok EXCEPT ![i] = t]
           /\ client' = [client EXCEPT !.AccessToken = t.access]
    /\ pc' = [pc EXCEPT ![i] = "setCSRF"]
    /\ UNCHANGED <<authMode, req, upReq, upResp, doc, resp, log>>

SetCSRFToken_StoresAccessToken(i) ==
    /\ pc[i] = "setCSRF"
    /\ client' = [client EXCEPT !.CSRFToken = tok[i].access]
    /\ pc' = [pc EXCEPT ![i] = "handler"]
    /\ UNCHANGED <<authMode, req, tok, upReq, upResp, doc, resp, log>>

\* the second store of SetAuthTokens; AuthMiddleware then calls the handler
SetCSRFToken(i) ==
    /\ pc[i] = "setCSRF"
    /\ client' = [client EXCEPT !.CSRFToken = tok[i].csrf]
    /\ pc' = [pc EXCEPT ![i] = "handler"]
    /\ UNCHANGED <<authMode, req, tok, upReq, upResp, doc, resp, log>>

\* HandleStudentReport up to GetStudent reading c.AccessToken
HandleStudentReport(i) ==
    /\ pc[i] = "handler"
    /\ LET studentID == RouteOf(i).id
       IN  IF studentID = ""
           THEN /\ resp' = [resp EXCEPT ![i] = HttpError(ErrIDRequired, StatusBadRequest)]
                /\ pc' = [pc EXCEPT ![i] = "done"]
                /\ upReq' = upReq
           ELSE /\ upReq' = [upReq EXCEPT ![i] =
                                [NoUpReq EXCEPT !.url = StudentURL(studentID),
                                                !.cookie = CookieHeader(client.AccessToken)]]
                /\ pc' = [pc EXCEPT ![i] = "attachCSRF"]
                /\ resp' = resp
    /\ UNCHANGED <<authMode, client, req, tok, upResp, doc, log>>

\* HandleHealth up to HealthCheck reading c.AccessToken
HandleHealth(i) ==
    /\ pc[i] = "health"
    /\ upReq' = [upReq EXCEPT ![i] =
                    [NoUpReq EXCEPT !.url = DashboardURL,
                                    !.cookie = CookieHeader(client.AccessToken)]]
    /\ pc' = [pc EXCEPT ![i] = "attachCSRF"]
    /\ UNCHANGED <<authMode, client, req, tok, upResp, doc, resp, log>>

\* GetStudent / HealthCheck reading c.CSRFToken, then HTTPClient.Do
AttachCSRFToken(i) ==
    /\ pc[i] = "attachCSRF"
    /\ upReq' = [upReq EXCEPT ![i].csrf = client.CSRFToken]
    /\ pc' = [pc EXCEPT ![i] = "waiting"]
    /\ UNCHANGED <<authMode, client, req, tok, upResp, doc, resp, log>>

GetStudentReturnFrom_RetriesFailedCall(i, O, Renders, partial) ==
    /\ pc[i] = "waiting"
    /\ RouteOf(i).kind = "report"
    /\ \E o \in O :
         LET studentID == RouteOf(i).id
             g == GetStudentResult(upReq[i].url, o)
         IN  /\ upResp' = [upResp EXCEPT ![i] = o]
             /\ IF ~g.ok
                THEN /\ resp' = resp
                     /\ log' = [log EXCEPT ![i] = <<FetchErrorLine(studentID, g.err)>>]
                     /\ doc' = doc
                     /\ pc' = [pc EXCEPT ![i] = "handler"]
                ELSE \E renderOK \in Renders :
                     \E n \in 0..Len(GenerateStudentReport(g.student)) :
                        LET out == RenderAndRespond(studentID, g.student, renderOK, n)
                        IN  /\ (~renderOK => n = 0)
                            /\ (~partial /\ renderOK =>
                                   n = Len(GenerateStudentReport(g.student)))
                            /\ resp' = [resp EXCEPT ![i] = out.resp]
                            /\ log' = [log EXCEPT ![i] = out.log]
                            /\ doc' = [doc EXCEPT ![i] = out.doc]
                            /\ pc' = [pc EXCEPT ![i] = "done"]
    /\ UNCHANGED <<authMode, client, req, tok, upReq>>

\* Do returns an outcome o of O; the rest of GetStudent and of
\* HandleStudentReport; the render ends as Renders allows, and the write can
\* break off after a part of the bytes when partial is TRUE
GetStudentReturnFrom(i, O, Renders, partial) ==
    /\ pc[i] = "waiting"
    /\ RouteOf(i).kind = "report"
    /\ \E o \in O :
         LET studentID == RouteOf(i).id
             g == GetStudentResult(upReq[i].url, o)
         IN  /\ upResp' = [upResp EXCEPT ![i] = o]
             /\ IF ~g.ok
                THEN /\ resp' = [resp EXCEPT ![i] = FetchErrorResponse(g.err)]
                     /\ log' = [log EXCEPT ![i] = <<FetchErrorLine(studentID, g.err)>>]
                     /\ doc' = doc
                ELSE \E renderOK \in Renders :
                     \E n \in 0..Len(GenerateStudentReport(g.student)) :
                        LET out == RenderAndRespond(studentID, g.student, renderOK, n)
                        IN  /\ (~renderOK => n = 0)
                            /\ (~partial /\ renderOK =>
                                   n = Len(GenerateStudentReport(g.student)))
                            /\ resp' = [resp EXCEPT ![i] = out.resp]
                            /\ log' = [log EXCEPT ![i] = out.log]
                            /\ doc' = [doc EXCEPT ![i] = out.doc]
    /\ pc' = [pc EXCEPT ![i] = "done"]
    /\ UNCHANGED <<authMode, client, req, tok, upReq>>

\* every outcome of the upstream call, of the render and of the write
GetStudentReturn(i) == GetStudentReturnFrom(i, UpstreamOutcomes, BOOLEAN, TRUE)

\* Do returns an outcome o of O; the rest of HealthCheck and of HandleHealth
HealthCheckReturnFrom(i, O) ==
    /\ pc[i] = "waiting"
    /\ RouteOf(i).kind = "health"
    /\ \E o \in O :
         /\ upResp' = [upResp EXCEPT ![i] = o]
         /\ resp' = [resp EXCEPT ![i] =
                IF HealthCheckResult(o)
                THEN [NoResponse EXCEPT !.status = StatusOK,
                                        !.contentType = <<"application/json">>,
                                        !.body = HealthyBody]
                ELSE [NoResponse EXCEPT !.status = StatusServiceUnavailable,
                                        !.contentType = <<"application/json">>,
                                        !.body = UnhealthyBody]]
    /\ pc' = [pc EXCEPT ![i] = "done"]
    /\ UNCHANGED <<authMode, client, req, tok, upReq, doc, log>>

HealthCheckReturn(i) == HealthCheckReturnFrom(i, UpstreamOutcomes)

\* the connection is released; the slot can take the next request
Finish_ClearsTokens(i) ==
    /\ pc[i] = "done"
    /\ pc' = [pc EXCEPT ![i] = "idle"]
    /\ req' = [req EXCEPT ![i] = NoRequest]
    /\ tok' = [tok EXCEPT ![i] = NoTokens]
    /\ upReq' = [upReq EXCEPT ![i] = NoUpReq]
    /\ upResp' = [upResp EXCEPT ![i] = NoOutcome]
    /\ doc' = [doc EXCEPT ![i] = NoDoc]
    /\ resp' = [resp EXCEPT ![i] = NoResponse]
    /\ log' = [log EXCEPT ![i] = <<>>]
    /\ client' = NewNodejsClient
    /\ UNCHANGED authMode

Finish(i) ==
    /\ pc[i] = "done"
    /\ pc' = [pc EXCEPT ![i] = "idle"]
    /\ req' = [req EXCEPT ![i] = NoRequest]
    /\ tok' = [tok EXCEPT ![i] = NoTokens]
    /\ upReq' = [upReq EXCEPT ![i] = NoUpReq]
    /\ upResp' = [upResp EXCEPT ![i] = NoOutcome]
    /\ doc' = [doc EXCEPT ![i] = NoDoc]
    /\ resp' = [resp EXCEPT ![i] = NoResponse]
    /\ log' = [log EXCEPT ![i] = <<>>]
    /\ UNCHANGED <<authMode, client>>

\* requests served one after another
SerialArrive(i) ==
    /\ \A j \in Slots \ {i} : pc[j] = "idle"
    /\ Arrive(i, SampleRequests)

Next ==
    \E i \in Slots :
        \/ SerialArrive(i)
        \/ SetAccessToken(i)
        \/ SetCSRFToken(i)
        \/ HandleStudentReport(i)
        \/ HandleHealth(i)
        \/ AttachCSRFToken(i)
        \/ GetStudentReturn(i)
        \/ HealthCheckReturn(i)
        \/ Finish(i)

Spec == Init /\ [][Next]_vars

\* extractTokens over every request shape: one report request per behaviour
ExtractRequests == {r \in AllRequests : r.path = ReportPath("2")}

ExtractArrive(i) ==
    /\ \A j \in Slots \ {i} : pc[j] = "idle"
    /\ Arrive(i, ExtractRequests)

NextExtract ==
    \E i \in Slots :
        \/ ExtractArrive(i)
        \/ SetAccessToken(i)
        \/ SetCSRFToken(i)

SpecExtract == Init /\ [][NextExtract]_vars

----------------------------------------------------------------------------
(* An upstream that requires authentication: MockNodejsServer *)

MockErrorBody(msg) == <<"{", "\"error\":", "\"", msg, "\"", "}", "\n">>

MockAnswer(st, b) == [kind |-> "http", status |-> st, body |-> b, cause |-> Empty]

\* the outbound request carries an accessToken cookie
HasAccessCookie(q) == Contains(q.cookie, <<"accessToken=">>)

\* the handler of /api/v1/students/
MockStudent(q) ==
    LET studentID == q.url[3]
    IN  IF ~HasAccessCookie(q)
        THEN MockAnswer(401, MockErrorBody("Authentication required"))
        ELSE IF q.csrf = Empty
        THEN MockAnswer(403, MockErrorBody("CSRF token required"))
        ELSE IF studentID = "2"
        THEN MockAnswer(StatusOK, <<"{", "\"id\":", "2", "}">>)
        ELSE IF studentID = "999"
        THEN MockAnswer(StatusNotFound, MockErrorBody("Student not found"))
        ELSE MockAnswer(StatusOK, <<"{", "\"id\":", "1", "}">>)

\* the handler of /api/v1/dashboard
MockDashboard(q) ==
    IF ~HasAccessCookie(q)
    THEN MockAnswer(401, MockErrorBody("Authentication required"))
    ELSE MockAnswer(StatusOK, <<"{\"status\":\"ok\",\"data\":{}}">>)

\* the upstream call of slot i is answered by the mock; the render ends as the
\* renderer does for the record, and the write succeeds
MockGetStudentReturn(i) ==
    LET o == MockStudent(upReq[i])
    IN  GetStudentReturnFrom(i, {o},
                             RenderOutcomes(GetStudentResult(upReq[i].url, o).student),
                             FALSE)

MockHealthCheckReturn(i) == HealthCheckReturnFrom(i, {MockDashboard(upReq[i])})

----------------------------------------------------------------------------
(* Requests served concurrently, one goroutine per connection *)

ConcRequests ==
    {r \in SampleRequests : r.path = ReportPath("2") /\ r.header.XAccessToken = Empty}

ConcArrive(i) == Arrive(i, ConcRequests)

NextConc ==
    \E i \in Slots :
        \/ ConcArrive(i)
        \/ SetAccessToken(i)
        \/ SetCSRFToken(i)
        \/ HandleStudentReport(i)
        \/ AttachCSRFToken(i)
        \/ MockGetStudentReturn(i)
        \/ Finish(i)

SpecConc == Init /\ [][NextConc]_vars

\* concurrent requests that all carry the same valid pair of tokens
ValidCredentials ==
    [cookies |-> <<[Name |-> AccessCookieName, Value |-> <<"tokA">>],
                   [Name |-> CsrfCookieName, Value |-> <<"tokD">>]>>,
     header |-> NoHeaders]

SameTokenRequests ==
    { [path |-> p, cookies |-> ValidCredentials.cookies,
       header |-> ValidCredentials.header] : p \in Paths }

SameTokenArrive(i) == Arrive(i, SameTokenRequests)

NextSameToken ==
    \E i \in Slots :
        \/ SameTokenArrive(i)
        \/ SetAccessToken(i)
        \/ SetCSRFToken(i)
        \/ HandleStudentReport(i)
        \/ HandleHealth(i)
        \/ AttachCSRFToken(i)
        \/ MockGetStudentReturn(i)
        \/ MockHealthCheckReturn(i)
        \/ Finish(i)

SpecSameToken == Init /\ [][NextSameToken]_vars

(* Requests served one after another on connections that stay open: the   *)
(* response of a served request is kept until its connection is released  *)

SeqRequests ==
    {r \in SampleRequests :
        /\ r.path \in {ReportPath("2"), ReportPath("999"), HealthPath}
        /\ r.header.XAccessToken = Empty}

\* no other request is between its arrival and its response
SeqArrive(i) ==
    /\ \A j \in Slots \ {i} : pc[j] \in {"idle", "done"}
    /\ Arrive(i, SeqRequests)

NextSeq ==
    \E i \in Slots :
        \/ SeqArrive(i)
        \/ SetAccessToken(i)
        \/ SetCSRFToken(i)
        \/ HandleStudentReport(i)
        \/ HandleHealth(i)
        \/ AttachCSRFToken(i)
        \/ MockGetStudentReturn(i)
        \/ MockHealthCheckReturn(i)
        \/ Finish(i)

SpecSeq == Init /\ [][NextSeq]_vars

----------------------------------------------------------------------------
(* Vocabulary of the properties *)

\* slot i holds a finished request that was dispatched to HandleStudentReport
ReportDone(i) == pc[i] = "done" /\ RouteOf(i).kind = "report"

\* the id segment of a report request
RequestedID(i) == req[i].path[4]

ErrorBody(msg) == <<"{\"error\":\"", msg, "\"}", "\n">>

FixedErrorBodies ==
    { ErrorBody("Student ID is required"), ErrorBody("Student not found"),
      ErrorBody("Failed to fetch student data"),
      ErrorBody("Failed to generate PDF report") }

IsErrorResponse(r, code, msg) == r.status = code /\ r.body = ErrorBody(msg)

\* the render succeeded and w.Write put out every byte
WriteCompleted(i) ==
    doc[i].attempted /\ ~doc[i].failed /\ doc[i].written = Len(doc[i].bytes)

\* the render succeeded and w.Write returned an error after a prefix
WriteFailed(i) ==
    doc[i].attempted /\ ~doc[i].failed /\ doc[i].written < Len(doc[i].bytes)

\* no header of the PDF download and no byte of a document is in the response
NoPDFWritten(r) ==
    /\ r.contentType # <<"application/pdf">>
    /\ r.disposition = Empty
    /\ r.contentLength = Empty
    /\ ~Contains(r.body, <<"%PDF">>)

\* slot i holds a report request whose tokens have been extracted
Extracted(i) == pc[i] \notin {"idle", "auth"} /\ RouteOf(i).kind = "report"

\* the value of the first cookie of that name, empty when there is none
FirstCookieValue(r, name) ==
    LET named == SelectSeq(r.cookies, LAMBDA c : c.Name = name)
    IN  IF named = <<>> THEN Empty ELSE Head(named).Value

CookiePresent(r, name) == \E k \in DOMAIN r.cookies : r.cookies[k].Name = name

\* the token of an Authorization header of the form "Bearer <token>"
BearerToken(r) ==
    LET h == r.header.Authorization
    IN  IF h # <<>> /\ Head(h) = "Bearer " THEN Tail(h) ELSE Empty

\* the first non-empty text of a list of channels, empty when all are empty
FirstNonEmpty(channels) ==
    IF \A k \in DOMAIN channels : channels[k] = Empty THEN Empty
    ELSE channels[CHOOSE k \in DOMAIN channels :
                     /\ channels[k] # Empty
                     /\ \A m \in 1..(k - 1) : channels[m] = Empty]

----------------------------------------------------------------------------
(* C1: a GET of the report endpoint with an empty id segment is answered   *)
(* 400 with the error "Student ID is required".                            *)
C1_EmptyIdIsBadRequest ==
    \A i \in Slots :
        (pc[i] = "done" /\ IsReportPath(req[i].path) /\ RequestedID(i) = "")
            => IsErrorResponse(resp[i], StatusBadRequest, "Student ID is required")

(* C2: when the upstream student call answers 404, whatever its body, the  *)
(* report request is answered 404 with the error "Student not found".      *)
C2_Upstream404IsNotFound ==
    \A i \in Slots :
        (ReportDone(i) /\ upResp[i].kind = "http" /\ upResp[i].status = StatusNotFound)
            => IsErrorResponse(resp[i], StatusNotFound, "Student not found")

C2_Witness ==
    \E i \in Slots :
        /\ ReportDone(i)
        /\ upResp[i].kind = "http" /\ upResp[i].status = StatusNotFound
        /\ upResp[i].body = Empty
        /\ resp[i].status = StatusNotFound

(* C3: when the upstream student call fails at transport level or answers  *)
(* a status other than 200 and 404, whatever its body, the report request  *)
(* is answered 500 with the error "Failed to fetch student data".          *)
C3_OtherFailuresAreInternalError ==
    \A i \in Slots :
        (ReportDone(i) /\ (\/ upResp[i].kind = "transport"
                           \/ /\ upResp[i].kind = "http"
                              /\ upResp[i].status \notin {StatusOK, StatusNotFound}))
            => IsErrorResponse(resp[i], StatusInternalServerError,
                               "Failed to fetch student data")

(* C4: when the upstream answers 200 with a body that does not decode into *)
(* a student record, the report request is answered 500 with the error     *)
(* "Failed to fetch student data", never 404 and never a PDF.              *)
C4_DecodeErrorIsInternalError ==
    \A i \in Slots :
        (ReportDone(i) /\ upResp[i].kind = "http" /\ upResp[i].status = StatusOK
                       /\ ~Unmarshal(upResp[i].body).ok)
            => /\ IsErrorResponse(resp[i], StatusInternalServerError,
                                  "Failed to fetch student data")
               /\ NoPDFWritten(resp[i])

(* C5 as stated: whenever fetch and render succeed for id X the response   *)
(* is 200, application/pdf, the Content-Disposition names student_X, the   *)
(* Content-Length is the number of rendered bytes and the body is the      *)
(* rendered bytes.                                                         *)
C5_SuccessResponseIsWholeDocument ==
    \A i \in Slots :
        (ReportDone(i) /\ doc[i].attempted /\ ~doc[i].failed)
            => /\ resp[i].status = StatusOK
               /\ resp[i].contentType = <<"application/pdf">>
               /\ resp[i].disposition =
                    <<"attachment; filename=student_", RequestedID(i), "_report.pdf">>
               /\ resp[i].contentLength = Itoa(Len(doc[i].bytes))
               /\ resp[i].body = doc[i].bytes

(* C5 amended: whenever fetch and render succeed for id X the response is  *)
(* 200, application/pdf, the Content-Disposition names student_X (the      *)
(* requested id), the Content-Length is the number of rendered bytes, and  *)
(* the body is the rendered bytes unchanged when the write succeeds and a  *)
(* proper prefix of them when the write fails.                             *)
C5_SuccessResponse ==
    \A i \in Slots :
        (ReportDone(i) /\ doc[i].attempted /\ ~doc[i].failed)
            => /\ resp[i].status = StatusOK
               /\ resp[i].contentType = <<"application/pdf">>
               /\ resp[i].disposition =
                    <<"attachment; filename=student_", RequestedID(i), "_report.pdf">>
               /\ resp[i].contentLength = Itoa(Len(doc[i].bytes))
               /\ (WriteCompleted(i) => resp[i].body = doc[i].bytes)
               /\ (WriteFailed(i) =>
                     /\ Len(resp[i].body) < Len(doc[i].bytes)
                     /\ HasPrefix(doc[i].bytes, resp[i].body))

C5_Witness ==
    \E i \in Slots :
        /\ ReportDone(i) /\ WriteCompleted(i)
        /\ RequestedID(i) = "abc"
        /\ Contains(doc[i].bytes, <<"ID: ", "2">>)
        /\ resp[i].body = doc[i].bytes

(* C6: every non-200 response of the report handler has a status among     *)
(* 400, 404, 500 and one of the four fixed JSON error bodies; nothing of   *)
(* the upstream body or of the error text is in it.                        *)
C6_ErrorResponsesAreFixed ==
    \A i \in Slots :
        (ReportDone(i) /\ resp[i].status # StatusOK)
            => /\ resp[i].status \in
                    {StatusBadRequest, StatusNotFound, StatusInternalServerError}
               /\ resp[i].body \in FixedErrorBodies

C6_Witness ==
    \E i \in Slots :
        /\ ReportDone(i)
        /\ upResp[i].kind = "http" /\ upResp[i].status = 401
        /\ upResp[i].body = <<"{", "\"id\":", "\"", "x", "\"", "}">>
        /\ resp[i].status = StatusInternalServerError

C8_AccessTokenPrecedence ==
    \A i \in Slots :
        Extracted(i)
            => tok[i].access =
                 FirstNonEmpty(<<FirstCookieValue(req[i], "accessToken"),
                                 BearerToken(req[i]),
                                 req[i].header.XAccessToken>>)

C8_Witness ==
    \E i \in Slots :
        /\ Extracted(i)
        /\ FirstCookieValue(req[i], "accessToken") = Empty
        /\ BearerToken(req[i]) = <<"tokB">>
        /\ req[i].header.XAccessToken = <<"tokC">>
        /\ tok[i].access = <<"tokB">>

(* C9: the CSRF token is the value of the csrfToken cookie when it yields  *)
(* one, otherwise the X-CSRF-Token header, otherwise empty; the header is  *)
(* used in every request without a csrfToken cookie.                       *)
C9_CsrfTokenPrecedence ==
    \A i \in Slots :
        Extracted(i)
            => /\ tok[i].csrf =
                    FirstNonEmpty(<<FirstCookieValue(req[i], "csrfToken"),
                                    req[i].header.XCSRFToken>>)
               /\ ~CookiePresent(req[i], "csrfToken")
                    => tok[i].csrf = req[i].header.XCSRFToken

C9_Witness ==
    \E i \in Slots :
        /\ Extracted(i)
        /\ ~CookiePresent(req[i], "csrfToken")
        /\ req[i].header.XCSRFToken = <<"csrfH">>
        /\ tok[i].csrf = <<"csrfH">>

(* C10 as stated: a request that carries an accessToken (csrfToken)        *)
(* cookie, even one with an empty value, gets the cookie's value for that  *)
(* token whatever its headers are.                                         *)
C10_CookieAlwaysWins ==
    \A i \in Slots :
        Extracted(i)
            => /\ CookiePresent(req[i], "accessToken")
                    => tok[i].access = FirstCookieValue(req[i], "accessToken")
               /\ CookiePresent(req[i], "csrfToken")
                    => tok[i].csrf = FirstCookieValue(req[i], "csrfToken")

(* C10 amended: a request that carries an accessToken (csrfToken) cookie   *)
(* with a non-empty value gets the cookie's value for that token whatever  *)
(* its headers are.                                                        *)
C10_NonEmptyCookieWins ==
    \A i \in Slots :
        Extracted(i)
            => /\ FirstCookieValue(req[i], "accessToken") # Empty
                    => tok[i].access = FirstCookieValue(req[i], "accessToken")
               /\ FirstCookieValue(req[i], "csrfToken") # Empty
                    => tok[i].csrf = FirstCookieValue(req[i], "csrfToken")

C10_Witness ==
    \E i \in Slots :
        /\ Extracted(i)
        /\ FirstCookieValue(req[i], "accessToken") = <<"tokA">>
        /\ BearerToken(req[i]) = <<"tokB">>
        /\ req[i].header.XAccessToken = <<"tokC">>
        /\ FirstCookieValue(req[i], "csrfToken") = <<"tokD">>
        /\ req[i].header.XCSRFToken = <<"csrfH">>
        /\ tok[i] = [access |-> <<"tokA">>, csrf |-> <<"tokD">>]

(* C11: the two tokens are extracted independently. The access token is    *)
(* the one extracted from the request's accessToken cookies, Authorization *)
(* header and X-Access-Token header alone, and the CSRF token the one      *)
(* extracted from its csrfToken cookies and X-CSRF-Token header alone; the *)
(* extraction leaves the request as it was, and the only change to the     *)
(* client in that step is the store of the extracted access token.         *)
AccessChannels(r) ==
    [r EXCEPT !.cookies = SelectSeq(r.cookies, LAMBDA c : c.Name = "accessToken"),
              !.header.XCSRFToken = Empty]

CsrfChannels(r) ==
    [r EXCEPT !.cookies = SelectSeq(r.cookies, LAMBDA c : c.Name = "csrfToken"),
              !.header.Authorization = Empty,
              !.header.XAccessToken = Empty]

C11_TokensExtractedIndependently ==
    [][\A i \in Slots :
          (pc[i] = "auth" /\ pc'[i] = "setCSRF")
              => /\ tok'[i].access = extractTokens(AccessChannels(req[i])).access
                 /\ tok'[i].csrf = extractTokens(CsrfChannels(req[i])).csrf
                 /\ req'[i] = req[i]
                 /\ client' = [client EXCEPT !.AccessToken = tok'[i].access]]_vars

C11_Witness ==
    \E i \in Slots :
        /\ pc[i] = "setCSRF"
        /\ FirstCookieValue(req[i], "accessToken") = Empty
        /\ FirstCookieValue(req[i], "csrfToken") = Empty
        /\ BearerToken(req[i]) = Empty
        /\ req[i].header.XAccessToken = <<"tokC">>
        /\ req[i].header.XCSRFToken = <<"csrfH">>
        /\ tok[i] = [access |-> <<"tokC">>, csrf |-> <<"csrfH">>]

(* C12: every upstream call of GetStudent or HealthCheck carries a Cookie  *)
(* header "accessToken=<AccessToken>" exactly when the client's            *)
(* AccessToken field is non-empty when the call reads it, and an           *)
(* X-CSRF-Token header equal to the CSRFToken field exactly when that      *)
(* field is non-empty; GetStudent targets {base}/api/v1/students/{id} and  *)
(* HealthCheck targets {base}/api/v1/dashboard.                            *)
C12_UpstreamCallCarriesClientTokens ==
    [][\A i \in Slots :
          /\ (pc[i] \in {"handler", "health"} /\ pc'[i] = "attachCSRF")
                => /\ upReq'[i].url =
                          IF pc[i] = "handler"
                          THEN <<BaseURL, "/api/v1/students/", RequestedID(i)>>
                          ELSE <<BaseURL, "/api/v1/dashboard">>
                   /\ IF client.AccessToken # Empty
                      THEN upReq'[i].cookie = <<"accessToken=">> \o client.AccessToken
                      ELSE upReq'[i].cookie = Empty
          /\ (pc[i] = "attachCSRF" /\ pc'[i] = "waiting")
                => /\ upReq'[i].csrf = client.CSRFToken
                   /\ upReq'[i].url = upReq[i].url
                   /\ upReq'[i].cookie = upReq[i].cookie]_vars

C12_Witness ==
    \E i \in Slots :
        /\ pc[i] = "waiting"
        /\ upReq[i].url = <<BaseURL, "/api/v1/dashboard">>
        /\ upReq[i].cookie = <<"accessToken=", "tokA">>
        /\ upReq[i].csrf = Empty
        /\ client = [AccessToken |-> <<"tokA">>, CSRFToken |-> Empty]

\* the error GetStudent returned, as the handler logged it
FetchError(i) == SubSeq(log[i][1], 4, Len(log[i][1]) - 1)

\* GetStudent returned an error / a record to the handler of slot i
FetchFailed(i) ==
    /\ ~doc[i].attempted
    /\ log[i] = <<FetchErrorLine(RequestedID(i), FetchError(i))>>

RecordReturned(i, student) ==
    /\ doc[i].attempted
    /\ ~doc[i].failed => doc[i].bytes = GenerateStudentReport(student)

TransportError(i) ==
    /\ FetchFailed(i)
    /\ FetchError(i) = <<"failed to make request: ", "Get \"">> \o upReq[i].url
                       \o <<"\": ">> \o upResp[i].cause

\* the error carries the status code and the body as it was read
UpstreamError(i) ==
    /\ FetchFailed(i)
    /\ FetchError(i) = <<"API request failed with ", "status ">>
                       \o Itoa(upResp[i].status) \o <<": ">> \o upResp[i].body

DecodeError(i) ==
    /\ FetchFailed(i)
    /\ HasPrefix(FetchError(i), <<"failed to unmarshal student data: ">>)

ReadError(i) ==
    /\ FetchFailed(i)
    /\ FetchError(i) = <<"failed to read response body: ">> \o upResp[i].cause

HealthDone(i) == pc[i] = "done" /\ RouteOf(i).kind = "health"

\* the dashboard probe was answered with HTTP 200
ProbeOK(i) == upResp[i].kind # "transport" /\ upResp[i].status = 200

(* C14: HandleHealth answers 200 with status "healthy" and nodejs_api      *)
(* "connected" exactly when the dashboard probe returns HTTP 200, and 503  *)
(* with status "unhealthy" and error "Node.js API unavailable" for every   *)
(* other probe outcome; both carry service "go-pdf-service" and            *)
(* Content-Type application/json.                                          *)
C14_HealthFollowsProbe ==
    \A i \in Slots :
        HealthDone(i)
            => /\ resp[i].contentType = <<"application/json">>
               /\ Contains(resp[i].body, <<"\",\"service\":\"", "go-pdf-service">>)
               /\ IF ProbeOK(i)
                  THEN /\ resp[i].status = 200
                       /\ HasPrefix(resp[i].body, <<"{\"status\":\"", "healthy">>)
                       /\ Contains(resp[i].body,
                                   <<"\",\"nodejs_api\":\"", "connected", "\"}">>)
                  ELSE /\ resp[i].status = 503
                       /\ HasPrefix(resp[i].body, <<"{\"status\":\"", "unhealthy">>)
                       /\ Contains(resp[i].body,
                                   <<"\",\"error\":\"", "Node.js API unavailable", "\"}">>)

C14_Witness ==
    \E i \in Slots :
        /\ HealthDone(i)
        /\ upResp[i].kind = "http" /\ upResp[i].status = 401
        /\ resp[i].status = 503
        /\ resp[i].body = UnhealthyBody

\* the Cookie header that carries access token a, none for the empty token
CookieFor(a) == IF a = Empty THEN Empty ELSE <<"accessToken=">> \o a

\* the outbound request of slot i carries exactly the pair t of tokens
Carries(i, t) == upReq[i].cookie = CookieFor(t.access) /\ upReq[i].csrf = t.csrf

\* slot i holds a /health request whose probe has been built
HealthProbed(i) == pc[i] \in {"waiting", "done"} /\ RouteOf(i).kind = "health"

TestTokens == [access |-> TestAccessToken, csrf |-> TestCSRFToken]

(* C15: the credentials of the upstream probe of a /health request are the *)
(* tokens extracted from that same request, or the pre-seeded test tokens  *)
(* when AUTH_MODE=test; outside test mode a /health request without tokens *)
(* probes without credentials whatever requests were served before it.     *)
C15_HealthProbeUsesOwnTokens ==
    \A i \in Slots :
        HealthProbed(i)
            => \/ Carries(i, extractTokens(req[i]))
               \/ authMode = "test" /\ Carries(i, TestTokens)

\* the upstream of slot i answered as MockNodejsServer answers the outbound
\* request: reachable, and accepting any accessToken cookie
DashboardAnswersAsMock(i) ==
    upResp[i].kind = "http" /\ upResp[i].status = MockDashboard(upReq[i]).status

(* C16: in test mode a /health request that carries no credentials is      *)
(* answered 200 healthy whenever the upstream is reachable and accepts the *)
(* test tokens, whatever requests were served before it.                   *)
C16_TestModeHealthIsHealthy ==
    \A i \in Slots :
        (HealthDone(i) /\ authMode = "test" /\ extractTokens(req[i]) = NoTokens
                       /\ DashboardAnswersAsMock(i))
            => (resp[i].status = 200 /\ resp[i].body = HealthyBody)

\* slot i holds a report request whose upstream call has been built
StudentCallBuilt(i) == pc[i] \in {"waiting", "done"} /\ RouteOf(i).kind = "report"

(* C17: in test mode the pre-set test tokens override the request's        *)
(* tokens: the upstream student call of every report request carries the   *)
(* tokens installed by SetTestTokens, whatever the inbound request carries. *)
C17_TestTokensOverride ==
    \A i \in Slots :
        (StudentCallBuilt(i) /\ authMode = "test") => Carries(i, TestTokens)

\* the report request of slot i lacks the access token or the CSRF token on
\* every channel
LacksToken(i) ==
    LET r == req[i]
    IN  \/ /\ FirstCookieValue(r, "accessToken") = Empty
           /\ BearerToken(r) = Empty
           /\ r.header.XAccessToken = Empty
        \/ /\ FirstCookieValue(r, "csrfToken") = Empty
           /\ r.header.XCSRFToken = Empty

(* C18: against an upstream that answers 401 without an accessToken cookie *)
(* and 403 without an X-CSRF-Token header, a report request that lacks the *)
(* access token or the CSRF token on every channel never receives a 200    *)
(* PDF response, under every interleaving with concurrent requests.        *)
C18_NoPDFWithoutTokens ==
    \A i \in Slots :
        (ReportDone(i) /\ LacksToken(i))
            => ~(resp[i].status = 200 /\ resp[i].contentType = <<"application/pdf">>)

ValidTokens == [access |-> <<"tokA">>, csrf |-> <<"tokD">>]

\* the body of the response of slot i is a whole PDF document
IsPDF(r) ==
    /\ r.status = 200
    /\ r.contentType = <<"application/pdf">>
    /\ r.body # Empty /\ Head(r.body) = "%PDF" /\ r.body[Len(r.body)] = "%%EOF"

C20_MissingTokensSurfaceAsFetchFailure ==
    \A i \in Slots :
        (RouteOf(i).kind = "report" /\ extractTokens(req[i]) = NoTokens)
            => /\ StudentCallBuilt(i) => Carries(i, NoTokens)
               /\ (ReportDone(i) /\ upResp[i].kind = "http"
                                 /\ upResp[i].status \in {401, 403})
                     => IsErrorResponse(resp[i], 500, "Failed to fetch student data")

\* the render of slot i was called and failed
RenderFailed(i) == doc[i].attempted /\ doc[i].failed

(* C21: a renderer failure makes HandleStudentReport respond 500 with the  *)
(* error "Failed to generate PDF report", without any PDF header or byte;  *)
(* this response occurs only when the fetch succeeded and the render       *)
(* failed.                                                                 *)
C21_RenderFailureIsInternalError ==
    \A i \in Slots :
        ReportDone(i)
            => /\ RenderFailed(i)
                    => /\ IsErrorResponse(resp[i], 500, "Failed to generate PDF report")
                       /\ NoPDFWritten(resp[i])
                       /\ resp[i].contentLength = Empty
               /\ IsErrorResponse(resp[i], 500, "Failed to generate PDF report")
                    => /\ RenderFailed(i)
                       /\ upResp[i].kind = "http" /\ upResp[i].status = 200
                       /\ Unmarshal(upResp[i].body).ok

C21_Witness ==
    \E i \in Slots :
        /\ ReportDone(i)
        /\ upResp[i] = [kind |-> "http", status |-> 200,
                        body |-> <<"{", "\"id\":", "2", "}">>, cause |-> Empty]
        /\ RenderFailed(i)
        /\ resp[i].status = 500
        /\ log[i] = <<RenderErrorLine("2")>>

\* GetStudent returned a record to the handler of slot i, which rendered it
Rendered(i) == ReportDone(i) /\ doc[i].attempted

SameRequestTwice(i, j) ==
    /\ i # j
    /\ ReportDone(i) /\ ReportDone(j)
    /\ req[i] = req[j]

(* C23: the same authenticated report request for the same id, issued      *)
(* twice in sequence against an unchanged upstream, yields the same        *)
(* status, the same headers apart from the length and two documents        *)
(* rendered from the same record; the first request leaves no state that   *)
(* changes the outcome of the second.                                      *)
C23_SameRequestSameOutcome ==
    \A i, j \in Slots :
        (SameRequestTwice(i, j) /\ ~LacksToken(i))
            => /\ upReq[i] = upReq[j]
               /\ upResp[i] = upResp[j]
               /\ resp[i].status = resp[j].status
               /\ resp[i].contentType = resp[j].contentType
               /\ resp[i].disposition = resp[j].disposition
               /\ doc[i] = doc[j]

C23_Witness ==
    \E i, j \in Slots :
        /\ SameRequestTwice(i, j) /\ ~LacksToken(i)
        /\ RequestedID(i) = "2"
        /\ IsPDF(resp[i]) /\ IsPDF(resp[j])
        /\ doc[i].bytes = doc[j].bytes

\* the tokens the requests of R can install in the client
AccessTokensOf(R) == {extractTokens(r).access : r \in R}
CsrfTokensOf(R) == {extractTokens(r).csrf : r \in R}

(* C24: concurrent report requests race on the credential fields of the    *)
(* shared client and one request's token leaks into another's upstream     *)
(* call: whenever the call issued for a request A carries a token that is  *)
(* not A's own, it is a token extracted from another request; and such a   *)
(* state is reachable (C24_Witness).                                       *)
C24_ForeignTokenIsAnotherRequests ==
    \A i \in Slots :
        StudentCallBuilt(i)
            => /\ upReq[i].cookie # CookieFor(tok[i].access)
                    => \E a \in AccessTokensOf(ConcRequests \ {req[i]}) :
                           upReq[i].cookie = CookieFor(a)
               /\ upReq[i].csrf # tok[i].csrf
                    => upReq[i].csrf \in CsrfTokensOf(ConcRequests \ {req[i]})

\* the call issued for A carries the access token extracted from B, which
\* is in flight at the same time
C24_Witness ==
    \E a, b \in Slots :
        /\ a # b
        /\ StudentCallBuilt(a)
        /\ Extracted(b) /\ pc[b] # "done"
        /\ tok[a] = [access |-> <<"tokA">>, csrf |-> <<"tokD">>]
        /\ tok[b] = [access |-> <<"tokB">>, csrf |-> <<"csrfH">>]
        /\ upReq[a].cookie = <<"accessToken=", "tokB">>

\* the client holds a (non-empty) token of the request of slot i
HoldsTokenOf(i) ==
    \/ tok[i].access # Empty /\ client.AccessToken = tok[i].access
    \/ tok[i].csrf # Empty /\ client.CSRFToken = tok[i].csrf

(* C25: no mutable shared resource outlives a request pipeline:            *)
(* credentials are scoped to one inbound request, so once a request has    *)
(* reached its terminal state the upstream client that later requests use  *)
(* no longer holds that request's access token or CSRF token.              *)
C25_CredentialsScopedToRequest ==
    \A i \in Slots : ReportDone(i) => ~HoldsTokenOf(i)

\* the outcome o of the upstream student call is a record
IsRecord(o) == o.kind = "http" /\ o.status = 200 /\ Unmarshal(o.body).ok

(* C26: each report request issues at most one upstream student call and   *)
(* at most one render, and the render happens only after that call         *)
(* returned a record; a failed call is never retried and ends the request  *)
(* at once with an error response.                                         *)
C26_OneCallOneRenderNoRetry ==
    [][\A i \in Slots :
          /\ (pc[i] # "waiting" /\ pc'[i] = "waiting")
                => /\ pc[i] = "attachCSRF"
                   /\ upResp[i] = NoOutcome
                   /\ ~doc[i].attempted
          /\ (upResp'[i] # upResp[i])
                => \/ pc[i] = "waiting" /\ pc'[i] = "done" /\ upResp[i] = NoOutcome
                   \/ pc[i] = "done" /\ pc'[i] = "idle"
          /\ (doc'[i] # doc[i] /\ pc'[i] # "idle")
                => /\ ~doc[i].attempted /\ doc'[i].attempted
                   /\ pc[i] = "waiting" /\ pc'[i] = "done"
                   /\ IsRecord(upResp'[i])
          /\ (RouteOf(i).kind = "report" /\ pc[i] = "waiting" /\ pc'[i] # "waiting"
                                         /\ ~IsRecord(upResp'[i]))
                => /\ pc'[i] = "done"
                   /\ ~doc'[i].attempted
                   /\ resp'[i].status \in {404, 500}
                   /\ resp'[i].body \in FixedErrorBodies]_vars

C26_Witness ==
    \E i \in Slots :
        /\ ReportDone(i)
        /\ upResp[i].kind = "transport"
        /\ ~doc[i].attempted
        /\ IsErrorResponse(resp[i], 500, "Failed to fetch student data")

\* HandleStudentReport has checked the id of the request of slot i
IdValidated(i) == pc[i] \in {"attachCSRF", "waiting", "done"}

\* slot i takes a step of AuthMiddleware
AuthStep(i) == pc[i] \in {"auth", "setCSRF"} /\ pc'[i] # pc[i]

NamesStudent(line, studentID) == \E k \in DOMAIN line : line[k] = studentID

(* C28: every terminal transition of a report request (400, 404, 500 fetch *)
(* failure, 500 render failure, successful response, failed response       *)
(* write) emits exactly one diagnostic line that records the outcome and   *)
(* the student id.                                                         *)
C28_OneLinePerTerminalTransition ==
    \A i \in Slots :
        (pc[i] = "done" /\ IsReportPath(req[i].path))
            => /\ Len(log[i]) = 1
               /\ NamesStudent(log[i][1], RequestedID(i))

\* AuthMiddleware has returned control to the handler of slot i, which has
\* not yet read the client
AtHandler(i) == pc[i] = "handler"

PairsOf(R) == {extractTokens(r) : r \in R}

(* C30: the (access token, CSRF token) pair attached to an upstream call   *)
(* is always a pair installed together by one SetAuthTokens or             *)
(* SetTestTokens call; under concurrent requests a call never carries the  *)
(* access token of one request with the CSRF token of another.             *)
C30_CallCarriesAnInstalledPair ==
    \A i \in Slots :
        StudentCallBuilt(i)
            => \E t \in PairsOf(ConcRequests) \cup {TestTokens} : Carries(i, t)

====
